---------------------------- MODULE Spec2Model ----------------------------
(***************************************************************************)
(* A state-machine model of dependency_handler/__init__.py: the Dependency *)
(* entity, the registry all_dependencies, the declaration API (FROM,       *)
(* IMPORT, init, Dependency.IMPORT), and the installation pipeline         *)
(* (install_all, install_all_generator, install_me, _ensure_pip,           *)
(* _execute).                                                              *)
(*                                                                         *)
(* Python values are encoded as follows.                                   *)
(*   - a str is a sequence of characters, characters are numbers 1..MaxChar*)
(*     and "a < b" on str is Python's lexicographic comparison (StrLess);  *)
(*   - an optional value is a sequence of length 0 (None) or 1 (Some(x));  *)
(*   - a module object is a record [version |-> optional str]: the value   *)
(*     of its __version__ attribute, None when it has no such attribute;   *)
(*   - the interpreter keeps loaded modules in sys_modules, the site       *)
(*     packages on disk are in disk: importlib.import_module returns the   *)
(*     cached module when there is one and loads from disk otherwise.      *)
(* Sequential code is written as operators over a record m of the whole    *)
(* program state (M); an action commits the record its handler returns.    *)
(***************************************************************************)
EXTENDS Integers, Sequences, FiniteSets, TLC

VARIABLES
    all_dependencies,       \* dict name -> Dependency, as the sequence of its values in insertion order
    other_globals,          \* None, or Some("globals"): a reference to the caller's namespace dict
    globals_dict,           \* the caller's namespace dict: key -> qualified name of the module stored, <<>> when unset
    all_printers,           \* list of registered printers (their kinds)
    printed,                \* per printer: the calls it received since the latest run started
    pip_ensured,            \* module-level memo flag of _ensure_pip
    _restart_needed,        \* module-level flag behind restart_needed()
    DEPENDENCIES_IMPORTED,  \* module-level aggregate flag
    sys_modules,            \* interpreter: name -> optional loaded module
    disk,                   \* site packages: name -> optional module installed on disk
    pip_on_disk,            \* whether the module pip is importable
    run,                    \* the frame of the pipeline run in flight (install_all_generator)
    ret,                    \* what the latest completed call returned or raised
    created,                \* history: name -> how many Dependency objects were constructed for it
    blender                 \* blender_printer.py: its module-level state, the timer, the threads it started

vars == <<all_dependencies, other_globals, globals_dict, all_printers, printed, pip_ensured,
          _restart_needed, DEPENDENCIES_IMPORTED, sys_modules, disk, pip_on_disk,
          run, ret, created, blender>>

---------------------------------------------------------------------------
(* Bounds of the model *)

\* characters of version strings are 1..MaxChar
MaxChar == 2
\* version strings of the evaluator's inputs have at most MaxVerLen characters
MaxVerLen == 2
\* a subprocess prints at most MaxLines lines before it exits
MaxLines == 1
\* at most MaxSubs submodule names are requested in all, over all Dependency.IMPORT calls
MaxSubs == 1
\* at most MaxPrinters printers are registered
MaxPrinters == 1
\* at most MaxSinks printers are registered in the model of failing printers
MaxSinks == 2
\* the interpreter's recursion limit, counted in nested printer calls
MaxDepth == 3
\* at most MaxThreads background threads are started by the operators
MaxThreads == 2
\* `pip list --outdated` prints at most MaxOut lines
MaxOut == 4

---------------------------------------------------------------------------
(* Python values *)

None == <<>>
Some(x) == <<x>>
Val(o) == o[1]

RECURSIVE StrLess(_, _)
\* a < b on Python str: lexicographic by code point, a proper prefix is smaller
StrLess(a, b) ==
    IF b = <<>> THEN FALSE
    ELSE IF a = <<>> THEN TRUE
    ELSE IF a[1] # b[1] THEN a[1] < b[1]
    ELSE StrLess(Tail(a), Tail(b))

StrLeq(a, b) == a = b \/ StrLess(a, b)

\* bool(x) of an optional str: None and "" are false
Truthy(o) == o # None /\ Val(o) # <<>>

Strings(n) == UNION {[1..k -> 1..MaxChar] : k \in 0..n}

Names == {"A", "B"}
SubNames == {"s", "t"}
\* the submodules that exist in a package; name.t is never found
Resolvable == {"s"}

V1 == <<1>>
V2 == <<2>>
Module(v) == [version |-> v]
\* the modules the site packages of the pipeline model may hold for a name:
\* A comes in version "1" or "2", B in version "1"
Modules(name) == IF name = "A" THEN {Module(Some(V1)), Module(Some(V2))}
                 ELSE {Module(Some(V1))}
\* the modules given to the evaluator alone: every version string, and no __version__
EvalModules == {Module(Some(s)) : s \in Strings(MaxVerLen)} \cup {Module(None)}
\* the version ranges given to the evaluator alone
EvalRanges == {<<lo, hi>> : lo \in {None} \cup {Some(s) : s \in Strings(MaxVerLen)},
                            hi \in {None} \cup {Some(s) : s \in Strings(MaxVerLen)}}

---------------------------------------------------------------------------
(* The program state as one record *)

M == [all_dependencies |-> all_dependencies, other_globals |-> other_globals,
      globals_dict |-> globals_dict,
      all_printers |-> all_printers, printed |-> printed,
      pip_ensured |-> pip_ensured, _restart_needed |-> _restart_needed,
      DEPENDENCIES_IMPORTED |-> DEPENDENCIES_IMPORTED,
      sys_modules |-> sys_modules, disk |-> disk, pip_on_disk |-> pip_on_disk,
      created |-> created, blender |-> blender, exc |-> "", val |-> FALSE, id |-> 0]

Commit(m) ==
    /\ all_dependencies' = m.all_dependencies
    /\ other_globals' = m.other_globals
    /\ globals_dict' = m.globals_dict
    /\ all_printers' = m.all_printers
    /\ printed' = m.printed
    /\ pip_ensured' = m.pip_ensured
    /\ _restart_needed' = m._restart_needed
    /\ DEPENDENCIES_IMPORTED' = m.DEPENDENCIES_IMPORTED
    /\ sys_modules' = m.sys_modules
    /\ disk' = m.disk
    /\ pip_on_disk' = m.pip_on_disk
    /\ created' = m.created
    /\ blender' = m.blender

Raise(m, e) == [m EXCEPT !.exc = e]

\* position of name in the dict, 0 when it is no key
Index(deps, name) ==
    IF \E i \in DOMAIN deps : deps[i].name = name
    THEN CHOOSE i \in DOMAIN deps : deps[i].name = name
    ELSE 0

Registered(deps) == {deps[i].name : i \in DOMAIN deps}

RECURSIVE Requested(_)
\* the number of submodule names requested so far
Requested(deps) ==
    IF deps = <<>> THEN 0 ELSE Len(Head(deps).submodules) + Requested(Tail(deps))

---------------------------------------------------------------------------
(* Printers *)

\* the printers of the model: a ConsolePrinter, a ConsolePrinter whose stdout is
\* closed (print raises), a FilePrinter, a FilePrinter whose file cannot be opened
PrinterKinds == {"console", "console_closed", "file", "file_unwritable"}

\* type(p).__qualname__
ClassOf(kind) == IF kind \in {"console", "console_closed"} THEN "ConsolePrinter"
                 ELSE IF kind = "blender" THEN "BlenderPrinter"
                 ELSE "FilePrinter"

\* whether the body of the printer's method raises: print in ConsolePrinter.log,
\* open in FilePrinter.log and FilePrinter.prepare; the other bodies do nothing
Fails(kind, method) ==
    \/ kind = "console_closed" /\ method = "log"
    \/ kind = "file_unwritable" /\ method \in {"log", "prepare"}

\* a printer's record of calls: consecutive ordinary log lines are kept as one
AddEvent(tr, ev) ==
    IF ev = "line" /\ Len(tr) > 0 /\ tr[Len(tr)] = "line" THEN tr ELSE Append(tr, ev)

\* the state of the printers while a call is delivered: what each has received, and
\* whether the interpreter's recursion limit was hit
Sinks(m) == [kinds |-> m.all_printers, printed |-> m.printed, overflow |-> FALSE]

RECURSIVE CallPrinter(_, _, _, _, _)
RECURSIVE Fallback(_, _, _, _)
\* a method of printer k wrapped by catch_exceptions, called at stack depth `depth`:
\* when the body raises, the wrapper logs the error to the printers of other classes
CallPrinter(s, k, method, ev, depth) ==
    IF s.overflow THEN s
    ELSE IF depth > MaxDepth THEN [s EXCEPT !.overflow = TRUE]
    ELSE IF ~Fails(s.kinds[k], method) THEN [s EXCEPT !.printed[k] = AddEvent(@, ev)]
    ELSE Fallback(s, k, 1, depth)

\* the except branch of the wrapper of printer k: for p in all_printers, from the j-th
Fallback(s, k, j, depth) ==
    IF s.overflow \/ j > Len(s.kinds) THEN s
    ELSE IF ClassOf(s.kinds[j]) = ClassOf(s.kinds[k]) THEN Fallback(s, k, j + 1, depth)
    ELSE Fallback(CallPrinter(s, j, "log", "error", depth + 1), k, j + 1, depth)

RECURSIVE Broadcast(_, _, _, _)
\* for printer in all_printers: printer.method(...), from the k-th printer
Broadcast(s, k, method, ev) ==
    IF s.overflow \/ k > Len(s.kinds) THEN s
    ELSE Broadcast(CallPrinter(s, k, method, ev, 1), k + 1, method, ev)

\* blender_printer.py as loaded: execution_queue is empty, the timer is not
\* registered and runs no loop (function is the local variable of its loop), no
\* thread was started, the text of the log is empty; enqueued and executed are
\* history: how many callbacks were put and called, a callback's ticket is its
\* number in the order of the puts
BlenderIdle ==
    [execution_queue |-> <<>>, timer_registered |-> FALSE, draining |-> FALSE,
     function |-> None, doing_something |-> FALSE, module_upgrades_checked |-> FALSE,
     updatable_modules |-> <<>>, text |-> <<>>, threads |-> <<>>,
     enqueued |-> 0, executed |-> 0]

\* run_in_main_thread(function): execution_queue.put(function)
run_in_main_thread(b, kind) ==
    [b EXCEPT !.execution_queue = Append(@, [kind |-> kind, ticket |-> b.enqueued + 1]),
              !.enqueued = @ + 1]

RECURSIVE BlenderCalls(_, _, _)
\* the method of every BlenderPrinter from the k-th on: log and prepare put their
\* function `do` (text.write, text.clear) into the queue, finish does nothing
BlenderCalls(b, kinds, method) ==
    IF kinds = <<>> \/ method = "finish" THEN b
    ELSE BlenderCalls(IF Head(kinds) # "blender" THEN b
                      ELSE run_in_main_thread(b, IF method = "log" THEN "write" ELSE "clear"),
                      Tail(kinds), method)

\* the program state after a call was delivered to every printer: a RecursionError
\* of the wrappers leaves the loop; when no body raises, every printer receives the
\* call and no wrapper does anything else
Delivered(m, method, ev) ==
    IF \A k \in DOMAIN m.all_printers : ~Fails(m.all_printers[k], method)
    THEN [m EXCEPT !.printed = [k \in DOMAIN @ |-> AddEvent(@[k], ev)],
                   !.blender = BlenderCalls(@, m.all_printers, method)]
    ELSE LET s == Broadcast(Sinks(m), 1, method, ev)
         IN  [m EXCEPT !.printed = s.printed,
                       !.exc = IF s.overflow THEN "RecursionError" ELSE @]

\* _log: the message goes to every registered printer
_log(m, ev) == Delivered(m, "log", ev)

\* an exception of the DepndencyHandlerException family logs itself when constructed
RaiseLogged(m, e) ==
    LET m1 == _log([m EXCEPT !.exc = ""], "line")
    IN  IF m1.exc # "" THEN m1 ELSE Raise(m1, e)

---------------------------------------------------------------------------
(* importlib.import_module *)

\* the module import_module(name) returns, None for ModuleNotFoundError
Imported(m, name) ==
    IF m.sys_modules[name] # None THEN m.sys_modules[name] ELSE m.disk[name]

\* the interpreter after import_module(name): a module found on disk is cached
AfterImport(m, name) ==
    [m EXCEPT !.sys_modules[name] = Imported(m, name)]

---------------------------------------------------------------------------
(* class Dependency *)

NewDependency(name, pip_name, version_range, id) ==
    [name |-> name, pip_name |-> pip_name, version_range |-> version_range,
     imported |-> FALSE, installed |-> FALSE, submodules |-> <<>>,
     module |-> None, wrong_version |-> FALSE, id |-> id]

\* all_dependencies[name] = dep: a new key is appended, an old key keeps its place
DictSet(deps, dep) ==
    IF Index(deps, dep.name) = 0 THEN Append(deps, dep)
    ELSE [deps EXCEPT ![Index(deps, dep.name)] = dep]

SetDep(m, dep) == [m EXCEPT !.all_dependencies = DictSet(@, dep)]

\* the condition of __post_init__, Python's and/or over the two bounds: 0 in range,
\* 1 out of range, 2 when module.__version__ is read and the module has none
RangeCheck(module, version_range) ==
    LET lo == version_range[1]
        hi == version_range[2]
        v  == module.version
    IN  IF Truthy(lo) /\ v = None THEN 2
        ELSE IF Truthy(lo) /\ StrLess(Val(v), Val(lo)) THEN 1
        ELSE IF Truthy(hi) /\ v = None THEN 2
        ELSE IF Truthy(hi) /\ StrLess(Val(hi), Val(v)) THEN 1
        ELSE 0

\* Dependency._add_to_globals: the parent under its name, then each submodule under
\* its bare name; the first submodule that is not found raises SubModuleNotFound
RECURSIVE ExposeSubmodules(_, _, _)
ExposeSubmodules(m, name, subs) ==
    IF subs = <<>> THEN m
    ELSE IF Head(subs) \notin Resolvable
         THEN RaiseLogged(_log(m, "line"), "SubModuleNotFound")
    ELSE ExposeSubmodules(
            [m EXCEPT !.globals_dict[Head(subs)] = <<name, Head(subs)>>],
            name, Tail(subs))

_add_to_globals(m, dep) ==
    IF m.other_globals = None THEN m
    ELSE ExposeSubmodules(
            [m EXCEPT !.globals_dict[dep.name] = <<dep.name>>],
            dep.name, dep.submodules)

\* __post_init__ marking a module it could import as installed, whatever its version
post_init_marks_installed(m, name, pip_name, version_range) ==
    LET id   == m.created[name] + 1
        d0   == NewDependency(name, IF pip_name = "" THEN name ELSE pip_name,
                              version_range, id)
        m0   == [SetDep(m, d0) EXCEPT !.created[name] = id, !.id = id]
        mod  == Imported(m0, name)
        m1   == AfterImport(m0, name)
    IN  IF mod = None THEN m1
        ELSE LET d1 == [d0 EXCEPT !.module = mod, !.installed = TRUE]
                 rc == RangeCheck(Val(mod), version_range)
             IN  IF rc = 2 THEN Raise(SetDep(m1, d1), "AttributeError")
                 ELSE IF rc = 1 THEN SetDep(m1, [d1 EXCEPT !.wrong_version = TRUE])
                 ELSE _add_to_globals(SetDep(m1, [d1 EXCEPT !.imported = TRUE]), d1)

\* Dependency.__post_init__, run by the constructor
__post_init__(m, name, pip_name, version_range) ==
    LET id   == m.created[name] + 1
        d0   == NewDependency(name, IF pip_name = "" THEN name ELSE pip_name,
                              version_range, id)
        m0   == [SetDep(m, d0) EXCEPT !.created[name] = id, !.id = id]
        mod  == Imported(m0, name)
        m1   == AfterImport(m0, name)
    IN  IF mod = None THEN m1
        ELSE LET d1 == [d0 EXCEPT !.module = mod]
                 rc == RangeCheck(Val(mod), version_range)
             IN  IF rc = 2 THEN Raise(SetDep(m1, d1), "AttributeError")
                 ELSE IF rc = 1 THEN SetDep(m1, [d1 EXCEPT !.wrong_version = TRUE])
                 ELSE _add_to_globals(
                        SetDep(m1, [d1 EXCEPT !.imported = TRUE, !.installed = TRUE]),
                        d1)

---------------------------------------------------------------------------
(* Declaration API *)

\* the identifiers FROM, IMPORT and init take: a bare name, (name, pip_name),
\* (name, (min, max)), (name, pip_name, (min, max)); anything else is "other"
Bare(n) == [shape |-> "str", items |-> <<n>>]
WithPip(n, p) == [shape |-> "name_pip", items |-> <<n, p>>]
WithRange(n, vr) == [shape |-> "name_range", items |-> <<n, vr>>]
WithPipRange(n, p, vr) == [shape |-> "name_pip_range", items |-> <<n, p, vr>>]
Other == [shape |-> "other", items |-> <<>>]

\* the identifiers of the pipeline model: A is declared bare or with the range
\* ("2", None), B bare
Identifiers == {Bare("A"), WithRange("A", <<Some(V2), None>>), Bare("B"), Other}

\* the identifiers of the declaration model: both names in every shape
DeclIdentifiers ==
    {Bare(n) : n \in Names} \cup {WithPip(n, "pkg") : n \in Names}
    \cup {WithRange(n, <<Some(V2), None>>) : n \in Names}
    \cup {WithPipRange(n, "pkg", <<None, Some(V1)>>) : n \in Names}
    \cup {Other}

\* the identifiers given to the evaluator alone: A with every range, in both shapes
EvalIdentifiers ==
    {WithRange("A", vr) : vr \in EvalRanges} \cup {WithPipRange("A", "pkg", vr) : vr \in EvalRanges}

\* the match statement of FROM
ParseIdentifier(ident) ==
    CASE ident.shape = "name_pip_range" ->
            [ok |-> TRUE, name |-> ident.items[1], pip_name |-> ident.items[2],
             version_range |-> ident.items[3]]
      [] ident.shape = "name_range" ->
            [ok |-> TRUE, name |-> ident.items[1], pip_name |-> ident.items[1],
             version_range |-> ident.items[2]]
      [] ident.shape = "name_pip" ->
            [ok |-> TRUE, name |-> ident.items[1], pip_name |-> ident.items[2],
             version_range |-> <<None, None>>]
      [] ident.shape = "str" ->
            [ok |-> TRUE, name |-> ident.items[1], pip_name |-> ident.items[1],
             version_range |-> <<None, None>>]
      [] OTHER ->
            [ok |-> FALSE, name |-> "", pip_name |-> "", version_range |-> <<None, None>>]

\* FROM constructing a Dependency for a registered name as for a new one
FROM_registered_constructs(m, p) ==
    LET m1 == __post_init__(m, p.name, p.pip_name, p.version_range)
    IN  IF m1.exc # "" THEN m1
        ELSE [m1 EXCEPT !.val = m1.all_dependencies[Index(m1.all_dependencies, p.name)].imported]

\* FROM storing the arguments of the latest declaration in the registered entry
FROM_registered_overwrites(m, p) ==
    LET i == Index(m.all_dependencies, p.name)
        dep == [m.all_dependencies[i] EXCEPT !.pip_name = p.pip_name,
                                             !.version_range = p.version_range]
    IN  [m EXCEPT !.all_dependencies[i] = dep, !.id = dep.id, !.val = dep.imported]

\* FROM marking a registered entry imported as soon as it holds a module
FROM_registered_reimports(m, p) ==
    LET i == Index(m.all_dependencies, p.name)
        dep == m.all_dependencies[i]
        d1 == IF dep.module = None THEN dep
              ELSE [dep EXCEPT !.imported = TRUE, !.installed = TRUE, !.wrong_version = FALSE]
    IN  [m EXCEPT !.all_dependencies[i] = d1, !.id = d1.id, !.val = d1.imported]

\* FROM checking the module of a registered entry against the range it is given
FROM_registered_rechecks(m, p) ==
    LET i == Index(m.all_dependencies, p.name)
        dep == m.all_dependencies[i]
        d1 == IF dep.module # None /\ RangeCheck(Val(dep.module), p.version_range) = 1
              THEN [dep EXCEPT !.imported = FALSE, !.wrong_version = TRUE]
              ELSE dep
    IN  [m EXCEPT !.all_dependencies[i] = d1, !.id = d1.id, !.val = d1.imported]

\* the branch of FROM for a name that is a key of all_dependencies
FROM_registered(m, p) ==
    LET dep == m.all_dependencies[Index(m.all_dependencies, p.name)]
    IN  [m EXCEPT !.id = dep.id, !.val = dep.imported]

\* the branch of FROM for a new name
FROM_new(m, p) ==
    LET m1 == __post_init__(m, p.name, p.pip_name, p.version_range)
    IN  IF m1.exc # "" THEN m1
        ELSE [m1 EXCEPT !.val = m1.all_dependencies[Index(m1.all_dependencies, p.name)].imported]

\* FROM(module_name): the Dependency is returned as its id, with its imported flag
FROM(m, ident) ==
    LET p == ParseIdentifier(ident)
    IN  IF ~p.ok THEN Raise(m, "ValueError")
        ELSE IF p.name \in Registered(m.all_dependencies) THEN FROM_registered(m, p)
        ELSE FROM_new(m, p)

\* IMPORT(module_name): the imported flag of the Dependency FROM returns
IMPORT(m, ident) ==
    LET m1 == FROM(m, ident)
    IN  IF m1.exc # "" THEN m1 ELSE [m1 EXCEPT !.id = 0]

\* the set comprehension of init: FROM(name).imported for each name, in list order
RECURSIVE DeclareAll(_, _, _)
DeclareAll(m, idents, all_imported) ==
    IF idents = <<>> THEN [m EXCEPT !.val = all_imported, !.id = 0]
    ELSE LET m1 == FROM(m, Head(idents))
         IN  IF m1.exc # "" THEN m1
             ELSE DeclareAll(m1, Tail(idents), all_imported /\ m1.val)

\* init registering the printers of the list one by one, up to the first that is none
init_registers_first(m, dependencies, module_globals, printers, use_console) ==
    IF \E i \in DOMAIN printers : printers[i] = "not_a_printer"
    THEN LET bad == CHOOSE i \in DOMAIN printers :
                        /\ printers[i] = "not_a_printer"
                        /\ \A j \in 1..(i - 1) : printers[j] # "not_a_printer"
             added == SubSeq(printers, 1, bad - 1)
         IN  Raise([m EXCEPT !.all_printers = @ \o added,
                             !.printed = @ \o [i \in DOMAIN added |-> <<>>]],
                   "TypeError")
    ELSE LET added == printers \o (IF use_console THEN <<"console">> ELSE <<>>)
             m1 == [m EXCEPT !.all_printers = @ \o added,
                             !.printed = @ \o [i \in DOMAIN added |-> <<>>],
                             !.other_globals = module_globals]
         IN  DeclareAll(m1, dependencies, TRUE)

\* init returning check_all_loaded() once its list is declared
init_checks_registry(m, dependencies, module_globals, printers, use_console) ==
    IF \E i \in DOMAIN printers : printers[i] = "not_a_printer"
    THEN Raise(m, "TypeError")
    ELSE LET added == printers \o (IF use_console THEN <<"console">> ELSE <<>>)
             m1 == [m EXCEPT !.all_printers = @ \o added,
                             !.printed = @ \o [i \in DOMAIN added |-> <<>>],
                             !.other_globals = module_globals]
             m2 == DeclareAll(m1, dependencies, TRUE)
         IN  IF m2.exc # "" THEN m2
             ELSE [m2 EXCEPT !.val = \A i \in DOMAIN m2.all_dependencies :
                                        m2.all_dependencies[i].imported]

\* init(dependencies, module_globals=, printers=, use_console=)
init(m, dependencies, module_globals, printers, use_console) ==
    IF \E i \in DOMAIN printers : printers[i] = "not_a_printer"
    THEN Raise(m, "TypeError")
    ELSE LET added == printers \o (IF use_console THEN <<"console">> ELSE <<>>)
             m1 == [m EXCEPT !.all_printers = @ \o added,
                             !.printed = @ \o [i \in DOMAIN added |-> <<>>],
                             !.other_globals = module_globals]
         IN  DeclareAll(m1, dependencies, TRUE)

\* Dependency.IMPORT(*submodules) of the Dependency registered under name
Dependency_IMPORT(m, name, submodules) ==
    LET i   == Index(m.all_dependencies, name)
        dep == [m.all_dependencies[i] EXCEPT !.submodules = @ \o submodules]
        m1  == [m EXCEPT !.all_dependencies[i] = dep, !.id = 0]
    IN  IF ~dep.imported THEN [m1 EXCEPT !.val = FALSE]
        ELSE IF m1.other_globals = None THEN Raise(m1, "TypeError")
        ELSE IF m1.globals_dict[name] = <<>> THEN Raise(m1, "KeyError")
        ELSE LET m2 == _add_to_globals(m1, dep)
             IN  IF m2.exc # "" THEN m2 ELSE [m2 EXCEPT !.val = TRUE]

\* is_restart_needed(): any(dep.installed and not dep.imported for dep in
\* all_dependencies) iterates the keys of the dict, which are str: the first key
\* raises AttributeError at dep.installed, an empty dict gives False
is_restart_needed(m) ==
    IF m.all_dependencies = <<>> THEN [m EXCEPT !.val = FALSE, !.id = 0]
    ELSE Raise([m EXCEPT !.id = 0], "AttributeError")

\* check_all_loaded()
check_all_loaded(m) ==
    LET all == \A i \in DOMAIN m.all_dependencies : m.all_dependencies[i].imported
    IN  [m EXCEPT !.DEPENDENCIES_IMPORTED = all, !.val = all, !.id = 0]

---------------------------------------------------------------------------
(* Installation pipeline.  A run is the generator install_all_generator; its *)
(* frame is run.  The generator is suspended only inside _execute, after a   *)
(* line of subprocess output was logged; every operator below takes the      *)
(* program state m and the frame r and returns both as they are when the     *)
(* next subprocess has been started or the generator has ended.              *)

IdleRun == [pc |-> "idle", mode |-> "", i |-> 0, cmd |-> "", lines |-> 0,
            size |-> 0, started |-> <<>>]

\* the finally block of install_all_generator, and the end of the generator
Finally(m, r) ==
    LET m1 == _log(_log(m, "line"), "Failed")
        m2 == Delivered(m1, "finish", "finish")
    IN  [m |-> m2, r |-> [r EXCEPT !.pc = "idle"]]

\* install_all_generator whose "return True" leaves without the finally block
Verify_returns_before_finally(m, r) ==
    LET c == check_all_loaded(m)
    IN  IF c.val
        THEN LET m1 == _log(c, "Successful")
                 m2 == IF m1._restart_needed THEN _log(m1, "line") ELSE m1
             IN  [m |-> m2, r |-> [r EXCEPT !.pc = "idle"]]
        ELSE Finally(c, r)

\* the statements after the for loop of install_all_generator
Verify(m, r) ==
    LET c == check_all_loaded(m)
    IN  IF c.val
        THEN LET m1 == _log(c, "Successful")
                 m2 == IF m1._restart_needed THEN _log(m1, "line") ELSE m1
             IN  Finally(m2, r)
        ELSE Finally(c, r)

\* subprocess.Popen in _execute: the frame waits for the subprocess's output;
\* the run keeps the list of the subprocesses it started, with their exit codes
Popen(m, r, i, cmd) ==
    [m |-> m,
     r |-> [r EXCEPT !.pc = "exec", !.i = i, !.cmd = cmd, !.lines = 0,
                     !.started = Append(@, [cmd |-> cmd, rc |-> -1,
                        name |-> IF cmd = "install" THEN m.all_dependencies[i].name ELSE ""])]]

\* the line "----- Installing <pip_name> ... -----" that opens the block of a dependency
InstallingLine(name) == IF name = "A" THEN "Installing A" ELSE "Installing B"

\* install_me from its "Installing" line to the installer invocation
StartInstall(m, r, i) ==
    Popen(_log(m, InstallingLine(m.all_dependencies[i].name)), r, i, "install")

\* _ensure_pip without its memo: pip is upgraded before every install
ensure_pip_unmemoized(m, r, i) ==
    IF m.pip_on_disk THEN Popen(_log(m, "line"), r, i, "upgrade")
    ELSE Popen(_log(m, "line"), r, i, "ensurepip")

\* _ensure_pip, up to its first subprocess
_ensure_pip(m, r, i) ==
    IF m.pip_ensured THEN StartInstall(m, r, i)
    ELSE IF m.pip_on_disk THEN Popen(_log(m, "line"), r, i, "upgrade")
    ELSE Popen(_log(m, "line"), r, i, "ensurepip")

\* install_me without its first statement: an imported dependency is installed again
install_me_always_installs(m, r, i) ==
    [m |-> _ensure_pip(m, r, i).m, r |-> _ensure_pip(m, r, i).r, skip |-> FALSE]

\* the first statement of install_me
install_me(m, r, i) ==
    IF m.all_dependencies[i].imported THEN [m |-> m, r |-> [r EXCEPT !.i = i], skip |-> TRUE]
    ELSE [m |-> _ensure_pip(m, r, i).m, r |-> _ensure_pip(m, r, i).r, skip |-> FALSE]

RECURSIVE NextDependency(_, _, _)
\* the for loop of install_all_generator fetching the i-th value of the dict;
\* a dict whose size changed since the loop began raises RuntimeError
NextDependency(m, r, i) ==
    IF Len(m.all_dependencies) # r.size
    THEN Finally(_log(Raise(m, "RuntimeError"), "line"), r)
    ELSE IF i > Len(m.all_dependencies) THEN Verify(m, r)
    ELSE LET s == install_me(m, r, i)
         IN  IF s.skip THEN NextDependency(m, r, i + 1) ELSE [m |-> s.m, r |-> s.r]

\* install_all_generator up to its first suspension.  The prepare loop is outside
\* the try statement: an exception that leaves it ends the generator at once.  The
\* printers that make _log raise make prepare raise, and the printers of a run do
\* not change while it is in flight, so that no later _log of the run raises.
install_all_generator(m, mode) ==
    LET m1 == Delivered([m EXCEPT !.printed = [k \in DOMAIN @ |-> <<>>]], "prepare", "prepare")
        r  == [IdleRun EXCEPT !.mode = mode, !.size = Len(m.all_dependencies)]
    IN  IF m1.exc # "" THEN [m |-> m1, r |-> r] ELSE NextDependency(m1, r, 1)

\* install_me assigning the flag from the state of the dependency it imported
Reimport_assigns_flag(m, i) ==
    LET dep == m.all_dependencies[i]
        mod == Imported(m, dep.name)
        m1  == AfterImport(m, dep.name)
    IN  IF mod = None THEN [_log(m1, "line") EXCEPT !.val = FALSE]
        ELSE LET m2 == IF dep.wrong_version
                       THEN _log([m1 EXCEPT !._restart_needed = TRUE], "line")
                       ELSE [m1 EXCEPT !._restart_needed = FALSE]
                 d1 == [dep EXCEPT !.module = mod, !.installed = TRUE,
                                   !.imported = TRUE, !.wrong_version = FALSE]
                 m3 == _add_to_globals([m2 EXCEPT !.all_dependencies[i] = d1], d1)
             IN  IF m3.exc # "" THEN m3 ELSE [_log(m3, "line") EXCEPT !.val = TRUE]

\* install_me asking for a restart after every import that follows an install
Reimport_always_restart(m, i) ==
    LET dep == m.all_dependencies[i]
        mod == Imported(m, dep.name)
        m1  == AfterImport(m, dep.name)
    IN  IF mod = None THEN [_log(m1, "line") EXCEPT !.val = FALSE]
        ELSE LET m2 == _log([m1 EXCEPT !._restart_needed = TRUE], "line")
                 d1 == [dep EXCEPT !.module = mod, !.installed = TRUE,
                                   !.imported = TRUE, !.wrong_version = FALSE]
                 m3 == _add_to_globals([m2 EXCEPT !.all_dependencies[i] = d1], d1)
             IN  IF m3.exc # "" THEN m3 ELSE [_log(m3, "line") EXCEPT !.val = TRUE]

\* install_me leaving wrong_version as it is when the import succeeded
Reimport_keeps_wrong_version(m, i) ==
    LET dep == m.all_dependencies[i]
        mod == Imported(m, dep.name)
        m1  == AfterImport(m, dep.name)
    IN  IF mod = None THEN [_log(m1, "line") EXCEPT !.val = FALSE]
        ELSE LET m2 == IF dep.wrong_version
                       THEN _log([m1 EXCEPT !._restart_needed = TRUE], "line")
                       ELSE m1
                 d1 == [dep EXCEPT !.module = mod, !.installed = TRUE, !.imported = TRUE]
                 m3 == _add_to_globals([m2 EXCEPT !.all_dependencies[i] = d1], d1)
             IN  IF m3.exc # "" THEN m3 ELSE [_log(m3, "line") EXCEPT !.val = TRUE]

\* the second try block of install_me: the import after the installer ran
Reimport(m, i) ==
    LET dep == m.all_dependencies[i]
        mod == Imported(m, dep.name)
        m1  == AfterImport(m, dep.name)
    IN  IF mod = None THEN [_log(m1, "line") EXCEPT !.val = FALSE]
        ELSE LET m2 == IF dep.wrong_version
                       THEN _log([m1 EXCEPT !._restart_needed = TRUE], "line")
                       ELSE m1
                 d1 == [dep EXCEPT !.module = mod, !.installed = TRUE,
                                   !.imported = TRUE, !.wrong_version = FALSE]
                 m3 == _add_to_globals([m2 EXCEPT !.all_dependencies[i] = d1], d1)
             IN  IF m3.exc # "" THEN m3 ELSE [_log(m3, "line") EXCEPT !.val = TRUE]

\* install_me starting the installer once more when it failed
InstallExit_retries(m, r, rc) ==
    IF rc # 0 /\ ~m.all_dependencies[r.i].wrong_version
    THEN StartInstall(_log(m, "line"), r, r.i)
    ELSE LET m1 == Reimport(IF rc # 0 THEN _log(m, "line") ELSE m, r.i)
         IN  IF m1.exc # "" THEN Finally(m1, r) ELSE NextDependency(m1, r, r.i + 1)

\* install_me importing the module whenever the installer has ended
AfterInstaller_always_reimports(m, i, rc) ==
    Reimport(IF rc # 0 THEN _log(m, "line") ELSE m, i)

\* install_me marking the Dependency as installed when the installer exited with 0
AfterInstaller_marks_installed(m, i, rc) ==
    IF rc # 0 /\ ~m.all_dependencies[i].wrong_version THEN _log(m, "line")
    ELSE Reimport(IF rc # 0 THEN _log(m, "line")
                  ELSE [m EXCEPT !.all_dependencies[i].installed = TRUE], i)

\* install_me of the i-th Dependency from the exit of the installer to its return:
\* a failed installer ends it unless the module is loaded in a wrong version
AfterInstaller(m, i, rc) ==
    IF rc # 0 /\ ~m.all_dependencies[i].wrong_version THEN _log(m, "line")
    ELSE Reimport(IF rc # 0 THEN _log(m, "line") ELSE m, i)

\* install_me after the installer exited with code rc, and the run after it
InstallExit(m, r, rc) ==
    LET m1 == AfterInstaller(m, r.i, rc)
    IN  IF m1.exc # "" THEN Finally(m1, r) ELSE NextDependency(m1, r, r.i + 1)

\* _ensure_pip treating a failed bootstrap like a failed upgrade: logged, then go on
EnsurePipExit_goes_on(m, r, rc) ==
    CASE r.cmd = "upgrade" ->
            StartInstall([(IF rc # 0 THEN _log(m, "line") ELSE m) EXCEPT !.pip_ensured = TRUE],
                         r, r.i)
      [] r.cmd = "ensurepip" ->
            IF rc # 0 THEN StartInstall(_log(m, "line"), r, r.i)
            ELSE Popen([m EXCEPT !.pip_on_disk = TRUE], r, r.i, "ensurepip_upgrade")
      [] r.cmd = "ensurepip_upgrade" ->
            StartInstall(_log([m EXCEPT !.pip_ensured = TRUE], "line"), r, r.i)

\* _ensure_pip after one of its subprocesses exited with code rc
EnsurePipExit(m, r, rc) ==
    CASE r.cmd = "upgrade" ->
            StartInstall([(IF rc # 0 THEN _log(m, "line") ELSE m) EXCEPT !.pip_ensured = TRUE],
                         r, r.i)
      [] r.cmd = "ensurepip" ->
            IF rc # 0 THEN Finally(RaiseLogged(m, "ModuleFatalException"), r)
            ELSE Popen([m EXCEPT !.pip_on_disk = TRUE], r, r.i, "ensurepip_upgrade")
      [] r.cmd = "ensurepip_upgrade" ->
            IF rc # 0 THEN Finally(RaiseLogged(m, "ModuleFatalException"), r)
            ELSE StartInstall(_log([m EXCEPT !.pip_ensured = TRUE], "line"), r, r.i)

\* _execute once the subprocess's output has ended: a non-zero exit code is logged
\* and raised as CalledProcessError to the caller of _execute
ProcessExit(m, r, rc) ==
    LET m1 == IF rc # 0 THEN _log(m, "line") ELSE m
        r1 == [r EXCEPT !.started[Len(r.started)].rc = rc]
    IN  IF r.cmd = "install" THEN InstallExit(m1, r1, rc) ELSE EnsurePipExit(m1, r1, rc)

\* what the installer of a name may leave on disk: nothing new, or a module
Installable(name) == {None} \cup {Some(mod) : mod \in Modules(name)}

\* the requirement install_me gives the installer: pip_name, with >=min when min is
\* a str and <=max when max is a str; whether a module version meets it
MeetsRequirement(v, version_range) ==
    /\ version_range[1] = None \/ StrLeq(Val(version_range[1]), v)
    /\ version_range[2] = None \/ StrLeq(v, Val(version_range[2]))

\* an installer that exits with code 0 leaves no module of the name on disk that
\* fails the requirement (the package may hold no module of that name at all)
ExitsZero(m, dep, installed) ==
    LET after == IF installed = None THEN m.disk[dep.name] ELSE installed
    IN  IF after = None THEN TRUE
        ELSE MeetsRequirement(Val(Val(after).version), dep.version_range)

\* the ways the installer started for dep may end: its exit code, and what it left
InstallerOutcomes(m, dep) ==
    {o \in [rc : {0, 1}, installed : Installable(dep.name)] :
        o.rc = 0 => ExitsZero(m, dep, o.installed)}

\* the subprocess of the frame ends with exit code rc, an installer having left
\* `installed` on disk, and the run goes on to its next subprocess or to its end
AfterExit(m, r, rc, installed) ==
    LET name == m.all_dependencies[r.i].name
    IN  ProcessExit([m EXCEPT !.disk[name] = IF installed = None THEN @ ELSE installed],
                    r, rc)

\* install_all returning check_all_loaded() whatever the generator raised
install_all_swallows(m) ==
    check_all_loaded([m EXCEPT !.exc = ""])

\* what install_all returns once the generator is drained
install_all_result(m) ==
    IF m.exc # "" THEN m ELSE check_all_loaded(m)

\* the call that ends a run: install_all returns check_all_loaded() or raises the
\* exception of the generator, next() raises StopIteration or that exception
Ended(s) ==
    IF s.r.mode = "blocking" THEN install_all_result(s.m)
    ELSE [s.m EXCEPT !.exc = IF @ = "" THEN "StopIteration" ELSE @]

\* the ways the subprocess of the frame may go on: it prints a line, or it exits
RunOutcomes(m, r) ==
    {[kind |-> "line", rc |-> 0, installed |-> None] : x \in {y \in {1} : r.lines < MaxLines}}
    \cup IF r.cmd = "install"
         THEN {[kind |-> "exit", rc |-> o.rc, installed |-> o.installed] :
                    o \in InstallerOutcomes(m, m.all_dependencies[r.i])}
         ELSE {[kind |-> "exit", rc |-> rc, installed |-> None] : rc \in {0, 1}}

\* the run after the subprocess of the frame went on as o says
TakeStep(m, r, o) ==
    IF o.kind = "line" THEN [m |-> _log(m, "line"), r |-> [r EXCEPT !.lines = @ + 1]]
    ELSE AfterExit(m, r, o.rc, o.installed)

---------------------------------------------------------------------------
(* The state machine *)

NoCall == [op |-> "", name |-> "", val |-> FALSE, exc |-> "", id |-> 0,
           redeclared |-> "no", started |-> <<>>, printed |-> <<>>, names |-> {}]

\* the record of a call: what it returned (val, and id for a Dependency) or raised,
\* the name it declared, whether that name was registered before the call
\* ("same": with the same pip_name and version_range, "differs": with others),
\* what each printer received during the call, and for init the names of its list
Returned(op, name, m, redeclared) ==
    [op |-> op, name |-> name, val |-> m.val, exc |-> m.exc, id |-> m.id,
     redeclared |-> redeclared, started |-> <<>>, printed |-> m.printed, names |-> {}]

\* the names of the identifiers of a list that FROM can parse
NamesOf(idents) ==
    {ParseIdentifier(idents[k]).name :
        k \in {j \in DOMAIN idents : ParseIdentifier(idents[j]).ok}}

\* the program is between two calls of its caller: no run is in flight, or the
\* generator of the run is suspended at a yield
Observable == run.pc = "idle" \/ (run.mode = "generator" /\ run.lines > 0)

\* printed holds the calls of the run in flight: it is empty between runs
Settled(m, r) ==
    IF r.pc = "idle" THEN [m EXCEPT !.printed = [k \in DOMAIN @ |-> <<>>]] ELSE m

\* whether the identifier names a registered Dependency, and with which arguments
Redeclares(ident) ==
    LET p == ParseIdentifier(ident)
        i == Index(all_dependencies, p.name)
    IN  IF ~p.ok \/ i = 0 THEN "no"
        ELSE IF \/ all_dependencies[i].pip_name # p.pip_name
                \/ all_dependencies[i].version_range # p.version_range
             THEN "differs"
        ELSE "same"

InitEnv(disks, pips) ==
    /\ all_dependencies = <<>>
    /\ other_globals = None
    /\ globals_dict = [k \in Names \cup SubNames |-> <<>>]
    /\ all_printers = <<>>
    /\ printed = <<>>
    /\ pip_ensured = FALSE
    /\ _restart_needed = FALSE
    /\ DEPENDENCIES_IMPORTED = FALSE
    /\ sys_modules = [n \in Names |-> None]
    /\ disk \in disks
    /\ pip_on_disk \in pips
    /\ run = IdleRun
    /\ ret = NoCall
    /\ created = [n \in Names |-> 0]
    /\ blender = BlenderIdle

\* a call of FROM or IMPORT; the record of the call is kept when detail is set
Declare(op, idents, detail) ==
    /\ \E ident \in idents :
        LET m == IF op = "IMPORT" THEN IMPORT(M, ident)
                 ELSE [FROM(M, ident) EXCEPT !.val = FALSE]
        IN  /\ Commit(Settled(m, run))
            /\ ret' = IF detail
                      THEN Returned(op, ParseIdentifier(ident).name, m, Redeclares(ident))
                      ELSE NoCall
    /\ UNCHANGED run

\* a call of init, while at most `limit` printers are registered
CallInitWithin(calls, limit, detail) ==
    /\ \E c \in calls :
        /\ Len(all_printers) + Len(c.printers) + (IF c.use_console THEN 1 ELSE 0) <= limit
        /\ LET m == init(M, c.dependencies, c.module_globals, c.printers, c.use_console)
           IN  /\ Commit(Settled(m, run))
               /\ ret' = IF ~detail THEN NoCall
                         ELSE [Returned("init", "", m,
                                        IF \E k \in DOMAIN c.dependencies :
                                             Redeclares(c.dependencies[k]) = "differs"
                                        THEN "differs" ELSE "no")
                                   EXCEPT !.names = NamesOf(c.dependencies)]
    /\ UNCHANGED run

\* a call of init
CallInit(calls, detail) == CallInitWithin(calls, MaxPrinters, detail)

\* a call of Dependency.IMPORT with one submodule name
CallDependencyIMPORT(detail) ==
    /\ \E name \in Registered(all_dependencies), sub \in SubNames :
        /\ Requested(all_dependencies) < MaxSubs
        /\ LET m == Dependency_IMPORT(M, name, <<sub>>)
           IN  /\ Commit(Settled(m, run))
               /\ ret' = IF detail THEN Returned("Dependency.IMPORT", name, m, "no") ELSE NoCall
    /\ UNCHANGED run

\* a call of check_all_loaded
CallCheckAllLoaded(detail) ==
    /\ LET m == check_all_loaded(M)
       IN  /\ Commit(Settled(m, run))
           /\ ret' = IF detail THEN Returned("check_all_loaded", "", m, "no") ELSE NoCall
    /\ UNCHANGED run

\* a call of is_restart_needed
CallIsRestartNeeded(detail) ==
    /\ LET m == is_restart_needed(M)
       IN  /\ Commit(Settled(m, run))
           /\ ret' = IF detail THEN Returned("is_restart_needed", "", m, "no") ELSE NoCall
    /\ UNCHANGED run

\* a step of the run leaves the generator at its next subprocess, or ends the
\* call: install_all returns check_all_loaded(), next() raises StopIteration or the
\* exception of the run; the record of the call lists the subprocesses of the run
Resume(s) ==
    LET done == s.r.pc = "idle"
        m == IF ~done THEN s.m ELSE Ended(s)
    IN  /\ Commit(Settled(m, s.r))
        /\ ret' = IF ~done THEN NoCall
                  ELSE [Returned(IF s.r.mode = "blocking" THEN "install_all" ELSE "next",
                                 "", [m EXCEPT !.id = 0], "no")
                            EXCEPT !.started = s.r.started]
        /\ run' = IF done THEN IdleRun ELSE s.r

---------------------------------------------------------------------------
(* The pipeline model: declarations in any order, and runs *)

\* the site packages hold any of the modules of each name or none; the interpreter
\* that comes without pip has not got B installed
Init ==
    /\ InitEnv({d \in [Names -> {None} \cup {Some(Module(Some(v))) : v \in {V1, V2}}] :
                    \A n \in Names : d[n] = None \/ Val(d[n]) \in Modules(n)},
               BOOLEAN)
    /\ IF pip_on_disk THEN TRUE ELSE disk["B"] = None

Call_FROM ==
    /\ Observable
    /\ Declare("FROM", Identifiers, FALSE)

Call_IMPORT ==
    /\ Observable
    /\ Declare("IMPORT", Identifiers, FALSE)

InitCall(dependencies, module_globals, printers, use_console) ==
    [dependencies |-> dependencies, module_globals |-> module_globals,
     printers |-> printers, use_console |-> use_console]

\* the dependency lists given to init
InitLists == {<<>>, <<Bare("A"), Bare("B")>>, <<WithRange("A", <<Some(V2), None>>)>>, <<Other>>}

\* the calls of init: every list with the caller's namespace, with and without a
\* console printer, and one call with a printer that is none
InitCalls ==
    {InitCall(d, Some("globals"), <<>>, c) : d \in InitLists, c \in BOOLEAN}
    \cup {InitCall(<<Bare("A")>>, Some("globals"), <<"not_a_printer">>, FALSE)}

\* init is called between runs
Call_init ==
    /\ run.pc = "idle"
    /\ CallInit(InitCalls, FALSE)

\* submodules are requested between runs
Call_Dependency_IMPORT ==
    /\ run.pc = "idle"
    /\ CallDependencyIMPORT(FALSE)

Call_check_all_loaded ==
    /\ Observable
    /\ CallCheckAllLoaded(FALSE)

\* install_all(): the call drains the generator, nothing else runs until it returns
Call_install_all ==
    /\ run.pc = "idle"
    /\ Resume(install_all_generator(M, "blocking"))

\* install_all_generator() and the first next() on it
Call_install_all_generator ==
    /\ run.pc = "idle"
    /\ Resume(install_all_generator(M, "generator"))

\* _execute: the subprocess prints a line, which is logged, and the generator yields
ExecuteLine ==
    /\ run.pc = "exec"
    /\ run.lines < MaxLines
    /\ Resume([m |-> _log(M, "line"), r |-> [run EXCEPT !.lines = @ + 1]])

\* the installer ends: it has left a module, or nothing new, on disk
InstallerExit ==
    /\ run.pc = "exec"
    /\ run.cmd = "install"
    /\ \E o \in InstallerOutcomes(M, all_dependencies[run.i]) :
        Resume(AfterExit(M, run, o.rc, o.installed))

\* a subprocess of _ensure_pip ends
PipExit ==
    /\ run.pc = "exec"
    /\ run.cmd # "install"
    /\ \E rc \in {0, 1} : Resume(AfterExit(M, run, rc, None))

Next ==
    \/ Call_FROM
    \/ Call_IMPORT
    \/ Call_init
    \/ Call_Dependency_IMPORT
    \/ Call_check_all_loaded
    \/ Call_install_all
    \/ Call_install_all_generator
    \/ ExecuteLine
    \/ InstallerExit
    \/ PipExit

Spec == Init /\ [][Next]_vars

---------------------------------------------------------------------------
(* The declaration model: declarations alone, every call recorded in ret *)

\* A in version "1", without __version__ or not installed, B in version "1"
DeclDisks ==
    {d \in [Names -> {None} \cup {Some(mod) : mod \in {Module(Some(V1)), Module(None)}}] :
        d["B"] = Some(Module(Some(V1)))}

InitDecl == InitEnv(DeclDisks, {TRUE})

Decl_FROM ==
    /\ run.pc = "idle"
    /\ Declare("FROM", DeclIdentifiers, TRUE)

Decl_IMPORT ==
    /\ run.pc = "idle"
    /\ Declare("IMPORT", DeclIdentifiers, TRUE)

DeclInitLists ==
    {<<>>, <<Bare("B")>>, <<Bare("A"), WithPip("B", "pkg")>>,
     <<WithRange("B", <<None, Some(V1)>>), Other, Bare("A")>>}

\* the calls of init: every list with a namespace, the empty list without one, and
\* one call with a printer that is none
DeclInitCalls ==
    {InitCall(d, Some("globals"), <<>>, FALSE) : d \in DeclInitLists}
    \cup {InitCall(<<>>, None, <<>>, FALSE)}
    \cup {InitCall(<<Bare("A")>>, Some("globals"), <<"not_a_printer">>, FALSE)}

Decl_init ==
    /\ run.pc = "idle"
    /\ CallInit(DeclInitCalls, TRUE)

Decl_Dependency_IMPORT ==
    /\ run.pc = "idle"
    /\ CallDependencyIMPORT(TRUE)

NextDecl ==
    \/ Decl_FROM
    \/ Decl_IMPORT
    \/ Decl_init
    \/ Decl_Dependency_IMPORT

SpecDecl == InitDecl /\ [][NextDecl]_vars

---------------------------------------------------------------------------
(* The evaluator model: a module on disk in any version, declared once with any   *)
(* range, and is_restart_needed over the registry                                *)

InitEval == InitEnv({d \in [Names -> {None} \cup {Some(mod) : mod \in EvalModules}] :
                        d["B"] = None},
                    {TRUE})

Eval_FROM ==
    /\ all_dependencies = <<>>
    /\ Declare("FROM", EvalIdentifiers, TRUE)

Eval_IMPORT ==
    /\ all_dependencies = <<>>
    /\ Declare("IMPORT", EvalIdentifiers, TRUE)

Eval_is_restart_needed ==
    /\ run.pc = "idle"
    /\ CallIsRestartNeeded(TRUE)

NextEval ==
    \/ Eval_FROM
    \/ Eval_IMPORT
    \/ Eval_is_restart_needed

SpecEval == InitEval /\ [][NextEval]_vars

---------------------------------------------------------------------------
(* The printer model: printers of every kind, failing ones too, and runs over A *)

InitSink == InitEnv({d \in [Names -> {None, Some(Module(Some(V1)))}] : d["B"] = None},
                    BOOLEAN)

\* the printers lists given to init: one printer (stdout is closed in this model, so
\* that every ConsolePrinter is one whose print raises), and a list whose second
\* element is no printer; one call asks for a console printer and gives no printer
SinkLists ==
    {<<k>> : k \in PrinterKinds \ {"console"}} \cup {<<"file", "not_a_printer">>}

SinkInitCalls ==
    {InitCall(d, Some("globals"), ps, FALSE) : d \in {<<>>, <<Bare("A")>>}, ps \in SinkLists}
    \cup {InitCall(<<Bare("A")>>, Some("globals"), <<"not_a_printer">>, TRUE)}

Sink_init ==
    /\ run.pc = "idle"
    /\ CallInitWithin(SinkInitCalls, MaxSinks, TRUE)

NextSink ==
    \/ Sink_init
    \/ Call_install_all
    \/ Call_install_all_generator
    \/ ExecuteLine
    \/ InstallerExit
    \/ PipExit

SpecSink == InitSink /\ [][NextSink]_vars

---------------------------------------------------------------------------
(* The GUI model: the operations of the pipeline model and the GUI operators of *)
(* blender_printer.py that reinstall a registered module                        *)

InitGui == InitEnv({d \in [Names -> {None, Some(Module(Some(V1)))}] :
                        d["A"] # None /\ d["B"] = None},
                   {TRUE})

\* restart_needed(need) called with a value
restart_needed(m, need) == [m EXCEPT !._restart_needed = need]

\* the thread of an operator once pip has run: the output is logged by fast_log,
\* restart_needed(True), and a line that asks for a restart
GuiReinstalled(m, name, installed) ==
    LET m1 == [m EXCEPT !.disk[name] = IF installed = None THEN @ ELSE installed]
    IN  _log(restart_needed(_log(m1, "line"), TRUE), "line")

\* a GUI operator on a registered module: FROM(module_name), pip in a thread
GuiOperator(dies) ==
    /\ \E name \in Registered(all_dependencies) :
        \E installed \in Installable(name) :
            LET m0 == FROM(M, Bare(name))
                m1 == IF dies THEN m0 ELSE GuiReinstalled(m0, name, installed)
            IN  Commit(Settled(m1, run))
    /\ ret' = NoCall
    /\ UNCHANGED run

\* DEPS_OT_UpdateModule: the thread reads self.version_range, which the operator
\* does not define; it goes on (the attribute resolves) or it ends there
Gui_update ==
    /\ Observable
    /\ \E dies \in BOOLEAN : GuiOperator(dies)

\* DEPS_OT_ChangeModuleVersion
Gui_change_version ==
    /\ Observable
    /\ GuiOperator(FALSE)

NextGui ==
    \/ Call_FROM
    \/ Call_IMPORT
    \/ Call_init
    \/ Call_Dependency_IMPORT
    \/ Call_check_all_loaded
    \/ Call_install_all
    \/ Call_install_all_generator
    \/ ExecuteLine
    \/ InstallerExit
    \/ PipExit
    \/ Gui_update
    \/ Gui_change_version

SpecGui == InitGui /\ [][NextGui]_vars

---------------------------------------------------------------------------
(* The update listing: list_module_updates over what `pip list --outdated` *)
(* printed.  A line of output is the list of its whitespace-separated      *)
(* columns (str.split), a blank line is the empty list; a dict is the      *)
(* sequence of its items in insertion order.                               *)

\* the lines `pip list --outdated` may print: its two header lines, rows of a
\* package with its version, the latest version and the type, a blank line and
\* rows that were cut short
OutputLines ==
    {<<"Package", "Version", "Latest", "Type">>, <<"-------", "-------", "------", "-----">>,
     <<"A", "1", "2", "wheel">>, <<"B", "1", "2", "wheel">>, <<"A", "2", "3", "sdist">>,
     <<"A", "1">>, <<"A">>, <<>>}

\* proc.stdout.splitlines(): what the subprocess printed
Outputs == UNION {[1..n -> OutputLines] : n \in 0..MaxOut}

\* seq[k:] of Python
From(seq, k) == SubSeq(seq, k + 1, Len(seq))

\* seq[:-1] of Python
ButLast(seq) == SubSeq(seq, 1, Len(seq) - 1)

\* updatable[key] = value
ItemSet(d, key, value) ==
    IF \E k \in DOMAIN d : d[k].key = key
    THEN [k \in DOMAIN d |-> IF d[k].key = key THEN [key |-> key, value |-> value] ELSE d[k]]
    ELSE Append(d, [key |-> key, value |-> value])

RECURSIVE CollectUpdates(_, _)
\* the for loop of list_module_updates over the lines left: line[0] of an empty
\* list raises IndexError, which no except clause of the function catches
CollectUpdates(lines, updatable) ==
    IF lines = <<>> THEN [val |-> updatable, exc |-> ""]
    ELSE LET line == ButLast(Head(lines))
         IN  IF line = <<>> THEN [val |-> <<>>, exc |-> "IndexError"]
             ELSE CollectUpdates(Tail(lines), ItemSet(updatable, line[1], Tail(line)))

\* list_module_updates without its except clause
list_module_updates_unguarded(rc, stdout) ==
    IF rc # 0 THEN [val |-> <<>>, exc |-> "CalledProcessError"]
    ELSE CollectUpdates(From(stdout, 2), <<>>)

\* list_module_updates, the subprocess having exited with code rc and printed
\* stdout: check=True raises CalledProcessError before anything is collected
list_module_updates(rc, stdout) ==
    IF rc # 0 THEN [val |-> <<>>, exc |-> ""]
    ELSE CollectUpdates(From(stdout, 2), <<>>)

InitUpdates == InitEnv({[n \in Names |-> None]}, {TRUE})

\* list_module_updates is called and waits in subprocess.run
Call_list_module_updates ==
    /\ run.pc = "idle"
    /\ run' = [IdleRun EXCEPT !.pc = "exec", !.cmd = "list_outdated"]
    /\ ret' = NoCall
    /\ Commit(M)

\* the subprocess ends and list_module_updates returns or raises; the record of
\* the call keeps what the subprocess did
ListOutdatedExit ==
    /\ run.pc = "exec"
    /\ run.cmd = "list_outdated"
    /\ \E rc \in {0, 1}, stdout \in Outputs :
        LET u == list_module_updates(rc, stdout)
        IN  ret' = [NoCall EXCEPT !.op = "list_module_updates", !.val = u.val, !.exc = u.exc,
                                  !.started = <<[cmd |-> "list_outdated", rc |-> rc,
                                                 stdout |-> stdout]>>]
    /\ run' = IdleRun
    /\ Commit(M)

NextUpdates ==
    \/ Call_list_module_updates
    \/ ListOutdatedExit

SpecUpdates == InitUpdates /\ [][NextUpdates]_vars

---------------------------------------------------------------------------
(* The front-end model: blender_printer.py.  The operators run in Blender's  *)
(* main thread, between two calls of the timer; each starts a daemon thread. *)
(* The timer _queued_functions_timer runs in the main thread too: its loop   *)
(* fetches a callback and calls it, in two steps the threads interleave      *)
(* with.  A thread takes a step where it would wait for a subprocess.        *)

\* BlenderPrinter.register_timer
register_timer(b) == [b EXCEPT !.timer_registered = TRUE]

\* BlenderPrinter.unregister_timer: its function `do` is put into the queue
unregister_timer(b) == run_in_main_thread(b, "unregister")

\* function(): the callback the timer fetched is called in the main thread
Called(b, cb) ==
    LET b1 == [b EXCEPT !.function = None, !.executed = @ + 1]
    IN  CASE cb.kind = "write" -> [b1 EXCEPT !.text = Append(@, cb.ticket)]
          [] cb.kind = "clear" -> [b1 EXCEPT !.text = <<>>]
          [] cb.kind = "unregister" -> [b1 EXCEPT !.timer_registered = FALSE]
          [] cb.kind = "call_unregister" -> unregister_timer(b1)
          [] OTHER -> b1

\* threading.Thread(target=worker, daemon=True).start(), the timer registered first
StartThread(b, task) ==
    [register_timer(b) EXCEPT !.threads = Append(@, [task |-> task, pc |-> "start",
                                                     r |-> IdleRun])]

\* the thread is running
Alive(th) == th.pc \in {"start", "exec"}

\* the worker of the install operator after a step s of its generator: it waits for
\* the next subprocess, or the generator raised and the thread ends with it, or the
\* generator is drained and the worker clears the flag, hands the callback of the
\* operator to the main thread and unregisters the timer
AfterWorkerStep(s, k) ==
    IF s.r.pc # "idle"
    THEN [s.m EXCEPT !.blender.threads[k] = [@ EXCEPT !.pc = "exec", !.r = s.r]]
    ELSE IF s.m.exc # ""
    THEN [s.m EXCEPT !.exc = "",
                     !.blender.threads[k] = [@ EXCEPT !.pc = "died", !.r = IdleRun]]
    ELSE [s.m EXCEPT !.blender =
            unregister_timer(run_in_main_thread(
                [@ EXCEPT !.doing_something = FALSE,
                          !.threads[k] = [@ EXCEPT !.pc = "done", !.r = IdleRun]],
                "callback"))]

\* what `pip list --outdated` prints in this model: nothing, a row, a blank line
ListedOutputs ==
    {<<>>,
     <<<<"Package", "Version", "Latest", "Type">>, <<"-------", "-------", "------", "-----">>,
       <<"A", "1", "2", "wheel">>>>,
     <<<<"Package", "Version", "Latest", "Type">>, <<"-------", "-------", "------", "-----">>,
       <<>>>>}

\* check_module_upgrades_thread once list_module_updates returned or raised; the
\* wrapper `threaded` hands the unregistration to the main thread in either case
AfterListed(b, k, u) ==
    IF u.exc # ""
    THEN run_in_main_thread([b EXCEPT !.threads[k].pc = "died"], "call_unregister")
    ELSE run_in_main_thread(
            run_in_main_thread([b EXCEPT !.updatable_modules = u.val,
                                         !.doing_something = FALSE,
                                         !.threads[k].pc = "done"], "refresh"),
            "call_unregister")

InitThreads == InitEnv({[n \in Names |-> None]}, {TRUE})

\* the add-on is loaded: init with a Dependency list, its namespace and a BlenderPrinter
Threads_init ==
    /\ blender.threads = <<>>
    /\ CallInitWithin({InitCall(<<Bare("A")>>, Some("globals"), <<"blender">>, FALSE)},
                      MaxPrinters, FALSE)

\* the install operator, made with a callback, of the add-on that is loaded: Blender
\* calls execute when poll returns true
Op_install ==
    /\ all_printers # <<>>
    /\ ~blender.draining
    /\ ~DEPENDENCIES_IMPORTED
    /\ Len(blender.threads) < MaxThreads
    /\ Commit([M EXCEPT !.blender = StartThread(@, "install")])
    /\ UNCHANGED <<run, ret>>

\* DEPS_OT_FindUpdates: create_gui draws its button when no restart is needed and the
\* updates were not checked yet, in a column that is enabled when nothing is going on
Op_find_updates ==
    /\ all_printers # <<>>
    /\ ~blender.draining
    /\ ~blender.doing_something
    /\ ~_restart_needed
    /\ ~blender.module_upgrades_checked
    /\ Len(blender.threads) < MaxThreads
    /\ Commit([M EXCEPT !.blender = StartThread(@, "check")])
    /\ UNCHANGED <<run, ret>>

\* the worker of the install operator begins: it sets the flag and runs the generator
Worker_begin ==
    /\ \E k \in DOMAIN blender.threads :
        /\ blender.threads[k].task = "install"
        /\ blender.threads[k].pc = "start"
        /\ Commit(AfterWorkerStep(
                install_all_generator([M EXCEPT !.blender.doing_something = TRUE],
                                      "generator"), k))
    /\ UNCHANGED <<run, ret>>

\* the subprocess a worker waits for prints a line or exits
Worker_step ==
    /\ \E k \in DOMAIN blender.threads :
        /\ blender.threads[k].task = "install"
        /\ blender.threads[k].pc = "exec"
        /\ \E o \in RunOutcomes(M, blender.threads[k].r) :
                Commit(AfterWorkerStep(TakeStep(M, blender.threads[k].r, o), k))
    /\ UNCHANGED <<run, ret>>

\* check_module_upgrades_thread begins: it sets its flags and calls list_module_updates
Check_begin ==
    /\ \E k \in DOMAIN blender.threads :
        /\ blender.threads[k].task = "check"
        /\ blender.threads[k].pc = "start"
        /\ Commit([M EXCEPT !.blender.module_upgrades_checked = TRUE,
                            !.blender.doing_something = TRUE,
                            !.blender.threads[k].pc = "exec"])
    /\ UNCHANGED <<run, ret>>

\* `pip list --outdated` exits
Check_exit ==
    /\ \E k \in DOMAIN blender.threads :
        /\ blender.threads[k].task = "check"
        /\ blender.threads[k].pc = "exec"
        /\ \E rc \in {0, 1}, stdout \in ListedOutputs :
                Commit([M EXCEPT !.blender = AfterListed(@, k, list_module_updates(rc, stdout))])
    /\ UNCHANGED <<run, ret>>

\* the loop of _queued_functions_timer finds the queue not empty and fetches a
\* callback; the loop begins when Blender calls the registered timer
Timer_get ==
    /\ IF blender.draining THEN TRUE ELSE blender.timer_registered
    /\ blender.function = None
    /\ blender.execution_queue # <<>>
    /\ Commit([M EXCEPT !.blender.function = Some(Head(blender.execution_queue)),
                        !.blender.execution_queue = Tail(@),
                        !.blender.draining = TRUE])
    /\ UNCHANGED <<run, ret>>

\* the loop calls the callback it fetched
Timer_call ==
    /\ blender.function # None
    /\ Commit([M EXCEPT !.blender = Called(@, Val(@.function))])
    /\ UNCHANGED <<run, ret>>

\* the loop finds the queue empty and the timer returns
Timer_return ==
    /\ blender.draining
    /\ blender.function = None
    /\ blender.execution_queue = <<>>
    /\ Commit([M EXCEPT !.blender.draining = FALSE])
    /\ UNCHANGED <<run, ret>>

NextThreads ==
    \/ Threads_init
    \/ Op_install
    \/ Op_find_updates
    \/ Worker_begin
    \/ Worker_step
    \/ Check_begin
    \/ Check_exit
    \/ Timer_get
    \/ Timer_call
    \/ Timer_return

SpecThreads == InitThreads /\ [][NextThreads]_vars

---------------------------------------------------------------------------
(* Properties *)

Dep(name) == all_dependencies[Index(all_dependencies, name)]

\* the range check as documented: a bound that is None is absent, v >= min and
\* v <= max compare str
InRange(v, version_range) ==
    /\ version_range[1] = None \/ StrLeq(Val(version_range[1]), v)
    /\ version_range[2] = None \/ StrLeq(v, Val(version_range[2]))

AllImported == \A i \in DOMAIN all_dependencies : all_dependencies[i].imported

\* the record of a run that came to its end
RunEnded == ret.op \in {"install_all", "next"}

\* the run of the record started the installer for name and it exited with code rc
InstallerExited(name, rc) ==
    \E k \in DOMAIN ret.started :
        ret.started[k].cmd = "install" /\ ret.started[k].name = name /\ ret.started[k].rc = rc

Has(tr, ev) == \E k \in DOMAIN tr : tr[k] = ev

\* C1: in every state between calls, a registered Dependency that is imported and
\* has a declared version range holds a module whose __version__ lies within the
\* range, also after install_me ran on a Dependency that was in wrong_version state.
C1_ImportedWithinRange ==
    Observable =>
        \A i \in DOMAIN all_dependencies :
            LET d == all_dependencies[i]
            IN  (d.imported /\ d.version_range # <<None, None>>) =>
                    /\ d.module # None
                    /\ Val(d.module).version # None
                    /\ InRange(Val(Val(d.module).version), d.version_range)

\* C2: the registry holds at most one Dependency per name, no second Dependency
\* is ever constructed (and so imported) for a name, and FROM returns the instance
\* the first declaration of the name created.
C2_OneInstancePerName ==
    /\ \A i, j \in DOMAIN all_dependencies :
            all_dependencies[i].name = all_dependencies[j].name => i = j
    /\ \A n \in Names :
            /\ created[n] <= 1
            /\ created[n] = 1 <=> n \in Registered(all_dependencies)
    /\ (ret.op = "FROM" /\ ret.exc = "") => (ret.id = 1 /\ Dep(ret.name).id = 1)

\* C2's case: FROM was given a registered name and returned the first instance
C2_Witness ==
    /\ ret.op = "FROM"
    /\ ret.redeclared = "same"
    /\ ret.id = 1
    /\ Len(all_dependencies) = 2

\* C3: a declaration naming a registered Dependency with another pip_name or
\* version_range leaves every field of every registered entry, and the order of the
\* registry, as they were.
C3_FirstDeclarationWins ==
    [][(ret'.op \in {"FROM", "IMPORT", "init"} /\ ret'.redeclared = "differs") =>
            \A i \in DOMAIN all_dependencies :
                /\ i \in DOMAIN all_dependencies'
                /\ all_dependencies'[i] = all_dependencies[i]]_vars

\* C3's case: init redeclared a name with other arguments, an entry has submodules
C3_Witness ==
    /\ ret.op = "init"
    /\ ret.redeclared = "differs"
    /\ ret.exc = ""
    /\ \E i \in DOMAIN all_dependencies : all_dependencies[i].submodules # <<>>

\* C4: the range check at declaration accepts the installed version v (the
\* Dependency is not marked wrong_version) iff (min is None or v >= min) and
\* (max is None or v <= max).
C4_RangeCheck ==
    \A i \in DOMAIN all_dependencies :
        LET d == all_dependencies[i]
        IN  (d.module # None /\ Val(d.module).version # None) =>
                (~d.wrong_version <=> InRange(Val(Val(d.module).version), d.version_range))

\* C5: after FROM or IMPORT constructed a Dependency: if its module was imported,
\* installed is true, and either wrong_version is true and imported false, or
\* imported is true, wrong_version false and the module is in the namespace given to
\* init; if the import failed, imported, installed, wrong_version are false and
\* module is None.
C5_ConstructorFlags ==
    (ret.op \in {"FROM", "IMPORT"} /\ ret.redeclared = "no"
        /\ ret.name \in Registered(all_dependencies)) =>
        LET d == Dep(ret.name)
        IN  IF d.module # None
            THEN /\ d.installed
                 /\ IF d.wrong_version THEN ~d.imported
                    ELSE d.imported /\ (other_globals # None => globals_dict[d.name] = <<d.name>>)
            ELSE ~d.imported /\ ~d.installed /\ ~d.wrong_version

\* C6: a Dependency in wrong_version state becomes imported only in the step of
\* the run in which the installer started for it has exited; no call of FROM,
\* IMPORT, init, Dependency.IMPORT or check_all_loaded makes it imported.
C6_OnlyReinstallImports ==
    [][\A i \in DOMAIN all_dependencies :
            (all_dependencies[i].wrong_version /\ i \in DOMAIN all_dependencies'
                /\ all_dependencies'[i].imported) =>
                (run.pc = "exec" /\ run.cmd = "install" /\ run.i = i)]_vars

\* C6's case: a Dependency declared with a range was in wrong_version state when
\* its re-import succeeded (the restart flag is set there only), and is imported
C6_Witness ==
    /\ _restart_needed
    /\ \E i \in DOMAIN all_dependencies :
            all_dependencies[i].imported /\ all_dependencies[i].version_range # <<None, None>>

\* C7: install_all called when every registered Dependency is imported returns
\* true in that call, having started no subprocess and changed no Dependency.
C7_InstallAllWhenImported ==
    [][(run.pc = "idle" /\ AllImported /\ (run'.mode = "blocking" \/ ret'.op = "install_all")) =>
            /\ run'.pc = "idle"
            /\ ret'.op = "install_all"
            /\ ret'.started = <<>>
            /\ ret'.exc = ""
            /\ ret'.val
            /\ all_dependencies' = all_dependencies]_vars

\* C7's case: install_all returned true over two imported dependencies without a subprocess
C7_Witness ==
    /\ ret.op = "install_all"
    /\ ret.val
    /\ ret.started = <<>>
    /\ Len(all_dependencies) = 2
    /\ AllImported

\* C8: when install_all ran over A and B, the installer of A exited non-zero, the
\* installer of B exited 0 and B is imported: no exception left install_all, A is
\* not imported, install_all returned false and DEPENDENCIES_IMPORTED is false.
C8_PartialFailure ==
    (/\ ret.op = "install_all"
     /\ Registered(all_dependencies) = {"A", "B"}
     /\ \A i \in DOMAIN all_dependencies :
            \A k \in DOMAIN all_dependencies[i].submodules :
                all_dependencies[i].submodules[k] \in Resolvable
     /\ InstallerExited("A", 1)
     /\ InstallerExited("B", 0)
     /\ Dep("B").imported) =>
        /\ ret.exc = ""
        /\ ~Dep("A").imported
        /\ ~ret.val
        /\ ~DEPENDENCIES_IMPORTED

\* C9: a run in which ensurepip or the pip upgrade after it exited non-zero ended
\* with ModuleFatalException raised to the caller, started the installer for no
\* dependency, and every printer received finish() as its last call.
C9_FatalBootstrap ==
    (RunEnded /\ \E k \in DOMAIN ret.started :
                    /\ ret.started[k].cmd \in {"ensurepip", "ensurepip_upgrade"}
                    /\ ret.started[k].rc # 0) =>
        /\ ret.exc = "ModuleFatalException"
        /\ \A k \in DOMAIN ret.started : ret.started[k].cmd # "install"
        /\ \A p \in DOMAIN ret.printed :
                /\ ret.printed[p] # <<>>
                /\ ret.printed[p][Len(ret.printed[p])] = "finish"

\* C9's case: the bootstrap failed in a run over two dependencies, a printer is registered
C9_Witness ==
    /\ RunEnded
    /\ ret.exc = "ModuleFatalException"
    /\ Len(ret.printed) > 0
    /\ Len(all_dependencies) = 2

\* C10: in a run that came to its end no printer received both the Installation
\* Successful line and the Installation Failed line, and the Installation Failed
\* line is logged only when an exception left the run or a Dependency is not imported.
C10_SucceededOrFailed ==
    RunEnded =>
        \A p \in DOMAIN ret.printed :
            /\ ~(Has(ret.printed[p], "Successful") /\ Has(ret.printed[p], "Failed"))
            /\ Has(ret.printed[p], "Failed") =>
                    (ret.exc \notin {"", "StopIteration"} \/ ~AllImported)

\* what a printer receives in one run: prepare, then log calls, then finish
OneRunTrace(tr) ==
    /\ Len(tr) >= 2
    /\ tr[1] = "prepare"
    /\ tr[Len(tr)] = "finish"
    /\ \A k \in 2..(Len(tr) - 1) : tr[k] \notin {"prepare", "finish"}

C12_SinkFailuresContained ==
    RunEnded =>
        /\ ret.exc # "RecursionError"
        /\ \A k, j \in DOMAIN all_printers :
                (Fails(all_printers[k], "log") /\ ~Fails(all_printers[j], "log")) =>
                    Has(ret.printed[j], "error")

\* C13: in every state between calls DEPENDENCIES_IMPORTED is true iff every
\* registered Dependency is imported.
C13_FlagIsDerived ==
    Observable => (DEPENDENCIES_IMPORTED <=> AllImported)

\* C14: is_restart_needed raises nothing and returns true iff a registered
\* Dependency is installed and not imported.
C14_RestartNeeded ==
    ret.op = "is_restart_needed" =>
        /\ ret.exc = ""
        /\ ret.val <=> \E i \in DOMAIN all_dependencies :
                            all_dependencies[i].installed /\ ~all_dependencies[i].imported

\* C15: once the restart flag is true, no step of any operation (declarations, runs,
\* check_all_loaded, the GUI operators) makes it false.
C15_RestartFlagSticky ==
    [][_restart_needed => _restart_needed']_vars

\* C15's case: the flag is true after a run that installed B alone, which is declared
\* without a range and so never sets the flag: it was true when the run began
C15_Witness ==
    /\ _restart_needed
    /\ ret.op = "install_all"
    /\ InstallerExited("B", 0)
    /\ \A k \in DOMAIN ret.started : ret.started[k].name # "A"
    /\ Dep("B").imported

\* C16: in the step in which the installer of a dependency has exited, the
\* dependency becomes imported with wrong_version false and the restart flag is set
\* iff it was in wrong_version state, or it stays not imported and the flag is left as
\* it was; a run that ended without exception with every Dependency imported leaves
\* DEPENDENCIES_IMPORTED true.
C16_RestartIffWrongVersion ==
    [][/\ (run.pc = "exec" /\ run.cmd = "install") =>
            LET before == all_dependencies[run.i]
                after  == all_dependencies'[run.i]
            IN  IF after.imported
                THEN /\ ~after.wrong_version
                     /\ after.installed
                     /\ _restart_needed' <=> (_restart_needed \/ before.wrong_version)
                ELSE _restart_needed' = _restart_needed
       /\ (run.pc # "idle" /\ run'.pc = "idle" /\ ret'.exc \in {"", "StopIteration"}
                /\ \A i \in DOMAIN all_dependencies' : all_dependencies'[i].imported) =>
            DEPENDENCIES_IMPORTED']_vars

\* C16's case: one run installed B, which was not installed, and reinstalled A, which
\* was in wrong_version state; both are imported, the flags are set
C16_Witness ==
    /\ ret.op = "install_all"
    /\ ret.val
    /\ InstallerExited("A", 0)
    /\ InstallerExited("B", 0)
    /\ Dep("A").version_range # <<None, None>>
    /\ Dep("A").imported /\ ~Dep("A").wrong_version
    /\ Dep("B").imported
    /\ _restart_needed
    /\ DEPENDENCIES_IMPORTED

\* C17: in every state between calls in which init has been given a namespace,
\* every imported Dependency has its module in the namespace under its name and
\* each of its submodules under the submodule's bare name.
C17_Exposure ==
    (Observable /\ other_globals # None) =>
        \A i \in DOMAIN all_dependencies :
            LET d == all_dependencies[i]
            IN  d.imported =>
                    /\ globals_dict[d.name] = <<d.name>>
                    /\ \A k \in DOMAIN d.submodules :
                            globals_dict[d.submodules[k]] = <<d.name, d.submodules[k]>>

\* C18: Dependency.IMPORT has appended the name it was given, returns true iff the
\* Dependency is imported, and on an imported Dependency raises nothing but
\* SubModuleNotFound.
C18_SubmoduleImport ==
    ret.op = "Dependency.IMPORT" =>
        /\ Dep(ret.name).submodules # <<>>
        /\ ret.exc = "" => (ret.val <=> Dep(ret.name).imported)
        /\ Dep(ret.name).imported => ret.exc \in {"", "SubModuleNotFound"}

\* C19: a call of init that raises TypeError changes nothing: no printer is
\* registered, the namespace reference, the registry and the interpreter's modules
\* are as before the call.
C19_TypeErrorChangesNothing ==
    [][(ret'.op = "init" /\ ret'.exc = "TypeError") =>
            UNCHANGED <<all_dependencies, other_globals, globals_dict, all_printers,
                        printed, pip_ensured, _restart_needed, DEPENDENCIES_IMPORTED,
                        sys_modules, disk, pip_on_disk, run, created>>]_vars

\* C19's case: init was given a list naming A, a namespace and a printers list whose
\* first element is a printer and whose second is none: A is not declared, no
\* namespace is set, no printer is registered
C19_Witness ==
    /\ ret.op = "init"
    /\ ret.exc = "TypeError"
    /\ ret.names = {"A"}
    /\ all_dependencies = <<>>
    /\ other_globals = None
    /\ all_printers = <<>>

\* C20: a call of init that returns, returns true iff every name of its list is
\* imported once declared, whatever else is registered, and starts no subprocess:
\* no run begins and the site packages are as before.
C20_InitResult ==
    [][(ret'.op = "init" /\ ret'.exc = "") =>
            /\ ret'.val <=> \A n \in ret'.names :
                    all_dependencies'[Index(all_dependencies', n)].imported
            /\ run' = run
            /\ disk' = disk
            /\ pip_ensured' = pip_ensured]_vars

\* C20's case: init returned true for a list naming B while A, declared before by
\* another call, is registered and not imported
C20_Witness ==
    /\ ret.op = "init"
    /\ ret.exc = ""
    /\ ret.val
    /\ ret.names = {"B"}
    /\ "A" \in Registered(all_dependencies)
    /\ ~Dep("A").imported

\* the positions of the "Installing" lines in what a printer received
Headers(tr) == {k \in DOMAIN tr : tr[k] \in {InstallingLine(n) : n \in Names}}

\* the blocks of a trace open in declaration order, one block per dependency at most
BlocksInOrder(tr) ==
    \A k, l \in Headers(tr) :
        k < l => \E i, j \in DOMAIN all_dependencies :
                    /\ i < j
                    /\ tr[k] = InstallingLine(all_dependencies[i].name)
                    /\ tr[l] = InstallingLine(all_dependencies[j].name)

\* the installers of a run were started in declaration order, one per dependency at
\* most, each after every subprocess started before it had exited
StartedInOrder(st) ==
    /\ \A k \in DOMAIN st : k < Len(st) => st[k].rc # -1
    /\ \A k, l \in DOMAIN st :
            (k < l /\ st[k].cmd = "install" /\ st[l].cmd = "install") =>
                Index(all_dependencies, st[k].name) < Index(all_dependencies, st[l].name)

\* C21: in a run, in flight or ended, every printer has received the dependencies'
\* blocks in declaration order, no dependency twice, and the installer of a
\* dependency was started only after the subprocesses before it had exited.
C21_BlocksInDeclarationOrder ==
    /\ StartedInOrder(run.started)
    /\ \A p \in DOMAIN printed : BlocksInOrder(printed[p])
    /\ RunEnded => /\ StartedInOrder(ret.started)
                   /\ \A p \in DOMAIN ret.printed : BlocksInOrder(ret.printed[p])

\* C21's case: a run installed A and B, a printer received both blocks with lines
\* between them
C21_Witness ==
    /\ RunEnded
    /\ Len(ret.printed) > 0
    /\ Cardinality(Headers(ret.printed[1])) = 2
    /\ \E k \in DOMAIN ret.printed[1] :
            /\ ret.printed[1][k] = "line"
            /\ \E a, b \in Headers(ret.printed[1]) : a < k /\ k < b

\* the caller of the generator calling check_all_loaded once next() raised
\* StopIteration; an exception of the run has reached the caller instead
DrainedThenChecked(g) ==
    IF g.exc = "StopIteration" THEN check_all_loaded([g EXCEPT !.exc = ""]) ELSE g

\* the same step taken by a run stepped with next() and by a run inside
\* install_all: both go on to the same subprocess in the same program state, or
\* both end, the drained generator followed by check_all_loaded, in the same
\* program state with the same printer calls, the same boolean or exception
SameStep(g, b) ==
    /\ g.r = [b.r EXCEPT !.mode = "generator"]
    /\ IF g.r.pc # "idle" THEN g.m = b.m
       ELSE DrainedThenChecked(Ended(g)) = Ended(b)

ListedWith(rc) == ret.op = "list_module_updates" /\ ret.started[1].rc = rc

\* C23: when `pip list --outdated` exits with a non-zero code, whatever it printed,
\* list_module_updates raises nothing and returns the empty dict.
C23_NonZeroExitSwallowed ==
    ListedWith(1) => ret.exc = "" /\ ret.val = <<>>

\* C23's case: the subprocess printed its header and a row, and exited non-zero
C23_Witness ==
    /\ ListedWith(1)
    /\ Len(ret.started[1].stdout) = 3
    /\ ret.started[1].stdout[3] = <<"A", "1", "2", "wheel">>

\* after the two header lines the output has a blank line or a row with fewer
\* than two columns
Malformed(stdout) ==
    \E k \in DOMAIN stdout : k > 2 /\ Len(stdout[k]) < 2

\* C24: when `pip list --outdated` exits with code 0 and its output is malformed,
\* list_module_updates raises nothing and returns the empty dict.
C24_MalformedOutputSwallowed ==
    (ListedWith(0) /\ Malformed(ret.started[1].stdout)) => ret.exc = "" /\ ret.val = <<>>

\* the callbacks are fetched in the order they were put, none twice: the callback
\* the timer holds is the next one after those it has called, and the queue holds
\* the ones after it
QueueInOrder ==
    LET held == IF blender.function = None THEN 0 ELSE 1
    IN  /\ blender.function # None => Val(blender.function).ticket = blender.executed + 1
        /\ \A k \in DOMAIN blender.execution_queue :
                blender.execution_queue[k].ticket = blender.executed + held + k
        /\ blender.enqueued = blender.executed + held + Len(blender.execution_queue)

\* the text holds the messages in the order the log calls were issued
TextInOrder ==
    \A i, j \in DOMAIN blender.text : i < j => blender.text[i] < blender.text[j]

\* no thread is running, the timer is not registered and its loop has ended
NothingScheduled ==
    /\ \A k \in DOMAIN blender.threads : ~Alive(blender.threads[k])
    /\ ~blender.timer_registered
    /\ ~blender.draining

\* C25: the timer calls the callbacks in the order they were put, each once, the
\* text receives the messages in the order the log calls were issued, and no
\* callback is left in the queue once no thread runs and no timer is scheduled.
C25_FifoExactlyOnce ==
    /\ QueueInOrder
    /\ TextInOrder
    /\ NothingScheduled => blender.execution_queue = <<>>

\* an install run started by the install operator is in flight in thread k
InstallInFlight(k) ==
    blender.threads[k].task = "install" /\ Alive(blender.threads[k])

\* the guard of a new run: poll of the install operator and the busy flag
StartGuard == ~DEPENDENCIES_IMPORTED /\ ~blender.doing_something

\* C26: while the run of an install worker is in flight the guard of a new run is
\* false and no other background thread runs.
C26_GuardFalseWhileInFlight ==
    \A k \in DOMAIN blender.threads :
        InstallInFlight(k) =>
            /\ ~StartGuard
            /\ \A j \in DOMAIN blender.threads : j # k => ~Alive(blender.threads[j])

Installing == run.pc = "exec" /\ run.cmd = "install"

\* the program state when the installer in flight has left `installed` on disk,
\* _execute having logged the exit code rc when it is not 0
InstallerLeft(rc, installed) ==
    LET name == all_dependencies[run.i].name
        m    == [M EXCEPT !.disk[name] = IF installed = None THEN @ ELSE installed]
    IN  IF rc # 0 THEN _log(m, "line") ELSE m

\* the two program states agree but for what was printed and returned
SameOutcome(a, b) ==
    [a EXCEPT !.printed = <<>>, !.val = FALSE, !.blender = BlenderIdle]
        = [b EXCEPT !.printed = <<>>, !.val = FALSE, !.blender = BlenderIdle]

\* install_me after the installer exited with 1 and left `installed`: a Dependency
\* that is not in wrong_version state is left as it was, with no import and the
\* restart flag as it was; for one in wrong_version state the program is left as
\* the re-import leaves it when the installer exited with 0
FailedInstaller(installed) ==
    LET before == all_dependencies[run.i]
        a == AfterInstaller(InstallerLeft(1, installed), run.i, 1)
    IN  IF ~before.wrong_version
        THEN /\ a.all_dependencies = all_dependencies
             /\ a._restart_needed = _restart_needed
             /\ a.sys_modules = sys_modules
             /\ a.globals_dict = globals_dict
             /\ a.exc = ""
        ELSE SameOutcome(a, AfterInstaller(InstallerLeft(0, installed), run.i, 0))

\* C27 as stated: a failed installer ends install_me at once when the Dependency is
\* not in wrong_version state and is followed by the re-import when it is, and no
\* exception leaves install_me in either case.
C27_NoExceptionLeaves ==
    Installing =>
        \A installed \in Installable(all_dependencies[run.i].name) :
            /\ FailedInstaller(installed)
            /\ AfterInstaller(InstallerLeft(1, installed), run.i, 1).exc = ""

\* C27, amended: as above, and the only exception that leaves install_me is
\* SubModuleNotFound, raised when the re-import of a Dependency in wrong_version
\* state succeeded and a submodule requested for it cannot be imported.
C27_FailedInstaller ==
    Installing =>
        \A installed \in Installable(all_dependencies[run.i].name) :
            LET a == AfterInstaller(InstallerLeft(1, installed), run.i, 1)
            IN  /\ FailedInstaller(installed)
                /\ a.exc \in {"", "SubModuleNotFound"}
                /\ a.exc = "SubModuleNotFound" =>
                        /\ all_dependencies[run.i].wrong_version
                        /\ a.all_dependencies[run.i].imported
                        /\ \E k \in DOMAIN all_dependencies[run.i].submodules :
                                all_dependencies[run.i].submodules[k] \notin Resolvable

\* C27's case: the installer of A exited with 1 and A is imported, which only the
\* re-import of a Dependency in wrong_version state does; the installer of B exited
\* with 1 and B is as it was
C27_Witness ==
    /\ RunEnded
    /\ InstallerExited("A", 1)
    /\ Dep("A").imported
    /\ _restart_needed
    /\ InstallerExited("B", 1)
    /\ ~Dep("B").imported
    /\ Dep("B").module = None

StartedAfter == IF run'.pc = "idle" THEN ret'.started ELSE run'.started

\* in this step the subprocess cmd of the run exited with code rc
Exits(cmd, rc) ==
    /\ run.pc = "exec"
    /\ run.cmd = cmd
    /\ Len(StartedAfter) >= Len(run.started)
    /\ StartedAfter[Len(run.started)].rc = rc

---------------------------------------------------------------------------
\* the Dependency objects whose wrong_version flag is set
WrongVersioned == {i \in DOMAIN all_dependencies : all_dependencies[i].wrong_version}

\* C31: between two operations and at every suspension point of the generator, no
\* Dependency is both wrong_version and imported, and a Dependency that is
\* wrong_version holds a loaded module
C31_WrongVersionExcludesImported ==
    Observable =>
        \A i \in WrongVersioned :
            /\ ~all_dependencies[i].imported
            /\ all_dependencies[i].module # None

\* C31's case: the generator is suspended in the installer of a Dependency that is
\* wrong_version, after another Dependency was imported by the run
C31_Witness ==
    /\ run.pc = "exec"
    /\ run.mode = "generator"
    /\ run.lines > 0
    /\ run.cmd = "install"
    /\ run.i \in WrongVersioned
    /\ \E i \in DOMAIN all_dependencies : all_dependencies[i].imported

---------------------------------------------------------------------------
\* the installers the run in flight, or else the latest run, has started
Installers(r, t) ==
    LET st == IF r.pc = "idle" THEN t.started ELSE r.started
    IN  {st[k].name : k \in {j \in DOMAIN st : st[j].cmd = "install"}}

\* the registry after a step holds the entries it held, in their places
RegistryGrows ==
    /\ Len(all_dependencies') >= Len(all_dependencies)
    /\ \A i \in DOMAIN all_dependencies :
            all_dependencies'[i].name = all_dependencies[i].name

\* a Dependency that is imported stays imported
ImportedStays ==
    \A i \in DOMAIN all_dependencies :
        all_dependencies[i].imported =>
            /\ i \in DOMAIN all_dependencies'
            /\ all_dependencies'[i].imported

\* a step starts no installer for a Dependency that was imported before the step
NoInstallerForImported ==
    \A i \in DOMAIN all_dependencies :
        all_dependencies[i].imported =>
            \/ run'.pc # "exec"
            \/ run'.cmd # "install"
            \/ run' = run
            \/ all_dependencies'[run'.i].name # all_dependencies[i].name

\* C32: imported never returns to false, no step removes a name from the registry
\* or moves it, and no installer is started for a Dependency that was imported
C32_ImportedMonotone ==
    [][RegistryGrows /\ ImportedStays /\ NoInstallerForImported]_vars

\* C32's case: a run over a registry whose first Dependency was imported before
\* the run has ended; it started the installer of the second and not of the first
C32_Witness ==
    /\ RunEnded
    /\ Len(all_dependencies) = 2
    /\ all_dependencies[1].imported
    /\ Installers(run, ret) = {all_dependencies[2].name}

---------------------------------------------------------------------------
\* the run that ended raised SubModuleNotFound out of the install of name
ExposureFailed(name) ==
    /\ RunEnded
    /\ ret.exc = "SubModuleNotFound"
    /\ ret.started # <<>>
    /\ ret.started[Len(ret.started)].cmd = "install"
    /\ ret.started[Len(ret.started)].name = name

\* a submodule requested for name is no key of the namespace
SubmoduleMissing(name) ==
    \E k \in DOMAIN Dep(name).submodules : globals_dict[Dep(name).submodules[k]] = <<>>

\* C33: when a run has raised SubModuleNotFound out of the install of a Dependency
\* and the submodule is missing from the namespace, the Dependency is not marked
\* imported and a call of check_all_loaded does not return true
C33_FailedExposureNotImported ==
    \A name \in Names :
        (ExposureFailed(name) /\ SubmoduleMissing(name)) =>
            /\ ~Dep(name).imported
            /\ ~check_all_loaded(M).val

---------------------------------------------------------------------------
\* some background thread is running
WorkerRunning == \E k \in DOMAIN blender.threads : Alive(blender.threads[k])

\* C34: the busy flag doing_something is never left true with no worker running,
\* whether the work of a thread raised or threads overlapped
C34_BusyFlagCleared ==
    blender.doing_something => WorkerRunning

---------------------------------------------------------------------------
\* Blender will call the timer again, or the loop of the timer is running
TimerScheduled == blender.timer_registered \/ blender.draining

\* C35: the timer is not unregistered while a background thread is running or a
\* callback is pending in the queue, so that every callback put by a thread is
\* called in the main thread
C35_TimerOutlivesWorkers ==
    (WorkerRunning \/ blender.execution_queue # <<>>) => TimerScheduled

===========================================================================
